---- MODULE Spec2Model ----
(***************************************************************************)
(* Model of boot.py, the firmware of an ESP32 + DHT22 sensor node.         *)
(*                                                                         *)
(* One behaviour is a sequence of boots ("cycles") of the device.  Each    *)
(* cycle runs the module's entry point (the test-button check), main(),    *)
(* connect() and send_measurement() statement by statement; pc is the      *)
(* position of the single flow of control.  The platform (radio, NTP       *)
(* server, sensor, sockets, RTC, reset logic) is the environment: what it  *)
(* returns or raises is chosen nondeterministically.                       *)
(*                                                                         *)
(* Time is counted in tenths of a second, so that utime.sleep(0.5) and     *)
(* utime.sleep(0.1) are exact and utime.time() (whole seconds) is a        *)
(* truncation of the clock.                                                *)
(*                                                                         *)
(* calls, polled, sent and slept record what the current cycle has asked   *)
(* of the platform; they are cleared at every boot.                        *)
(***************************************************************************)
EXTENDS Integers, Sequences, FiniteSets, TLC

VARIABLES
    pc,              \* position of the flow of control
    cycle,           \* number of the current boot
    cause,           \* machine.reset_cause() of the current boot
    now,             \* RTC, in tenths of a second
    synced,          \* the RTC was set by ntptime.settime() since power-on
    isconnected,     \* nic.isconnected()
    branch,          \* the if-block of main() that called connect()
    i,               \* loop variable of the running for-loop
    connectRet,      \* value returned by connect()
    reading,         \* <<temperature, humidity>> of send_measurement, in tenths
    measurement_id,  \* local measurement_id of send_measurement
    exc,             \* the call that raised, "none" if none did
    calls,           \* platform calls made in this cycle, in order
    polled,          \* results of the isconnected() polls of connect()'s loop
    sent,            \* datagrams handed to sendto() in this cycle
    slept            \* arguments of the machine.deepsleep() calls of this cycle

vars == <<pc, cycle, cause, now, synced, isconnected, branch, i, connectRet,
          reading, measurement_id, exc, calls, polled, sent, slept>>

----------------------------------------------------------------------------
(* Bounds of the model *)

\* Number of boots followed in one behaviour.
MaxCycles == 3

----------------------------------------------------------------------------
(* Program constants *)

\* for i in range(20)
PollAttempts == 20
\* utime.sleep(0.5), in tenths of a second
PollDelay == 5
\* for i in range(3)
SendAttempts == 3
\* utime.sleep(0.1), in tenths of a second
SendDelay == 1
\* uos.urandom(16)
UrandomLen == 16
\* machine.deepsleep(INTERVAL * 1000)
MsPerSecond == 1000

\* from config import INTERVAL, ...: the values of a deployment ("every 5
\* minutes"); config.py is not part of the sources.
INTERVAL == 300
SERVER_ADDR == "192.168.0.2"
SERVER_PORT == 8000

PWRON_RESET == "PWRON_RESET"
DEEPSLEEP_RESET == "DEEPSLEEP_RESET"
HARD_RESET == "HARD_RESET"
SOFT_RESET == "SOFT_RESET"

----------------------------------------------------------------------------
(* What the platform can answer *)

\* Clock values ntptime.settime() can install: the three phases within a
\* second that make the sends of one cycle fall in one second or in two.
NtpTimes == {6000000, 6000008, 6000009}

\* <<temperature, humidity>> the DHT22 can report, in tenths (21.5 C, 45.0 %).
SensorReadings == {<<215, 450>>, <<38, 991>>}

\* Byte strings uos.urandom(16) can return.
UrandomSamples ==
    { [k \in 1..UrandomLen |-> b] : b \in {0} } \cup
    { [k \in 1..UrandomLen |-> (167 + 13 * k) % 256] }

\* machine.unique_id(): the six bytes of the device.
unique_id == <<36, 10, 196, 0, 127, 255>>

\* Reset causes an external reset (power cycle, reset button, REPL Ctrl-D)
\* can produce.
ExternalCauses == {PWRON_RESET, HARD_RESET, SOFT_RESET}

----------------------------------------------------------------------------
(* Pure functions *)

HexDigits == <<"0", "1", "2", "3", "4", "5", "6", "7",
               "8", "9", "a", "b", "c", "d", "e", "f">>

HexByte(b) == HexDigits[(b \div 16) + 1] \o HexDigits[(b % 16) + 1]

\* ubinascii.hexlify: two lower-case hex digits per byte.
RECURSIVE hexlify(_)
hexlify(bytes) ==
    IF bytes = <<>> THEN "" ELSE HexByte(Head(bytes)) \o hexlify(Tail(bytes))

\* utime.time(): whole seconds of the clock.
utime_time(t) == t \div 10

\* Python truth value of what connect() returns (True, or None by falling
\* off the end of the function).
Truthy(v) == v = "True"

Quote(s) == "\"" \o s \o "\""

\* A float with one decimal, as ujson prints it.
FormatTenths(x) == ToString(x \div 10) \o "." \o ToString(x % 10)

\* ujson.dumps of the dictionary of send_measurement, as a token sequence.
dumps(d) ==
    << "{",
       Quote("sensor_id"), ":", Quote(d.sensor_id), ",",
       Quote("sensor_type"), ":", Quote(d.sensor_type), ",",
       Quote("sensor_time"), ":", ToString(d.sensor_time), ",",
       Quote("measurement_id"), ":", Quote(d.measurement_id), ",",
       Quote("measurement_data"), ":", "{",
           Quote("temperature"), ":", FormatTenths(d.measurement_data.temperature), ",",
           Quote("humidity"), ":", FormatTenths(d.measurement_data.humidity),
       "}",
       "}" >>

\* The value token that follows key in a serialized record.
JsonField(data, key) ==
    data[(CHOOSE p \in 1..Len(data) : data[p] = Quote(key)) + 2]

\* The dictionary built in the body of the send loop at clock value t.
Payload(t, id, r) ==
    [ sensor_id        |-> hexlify(unique_id),
      sensor_type      |-> "ESP32/DHT22",
      sensor_time      |-> utime_time(t),
      measurement_id   |-> hexlify(id),
      measurement_data |-> [temperature |-> r[1], humidity |-> r[2]] ]

\* Mutant of PollLoopDone: the loop gives up one poll early (range(19)).
PollLoopDone_Early(k) == k >= PollAttempts - 1

\* for i in range(20): the loop of connect() is exhausted at index k.
PollLoopDone(k) == k >= PollAttempts

\* Mutant of SendLoopDone: the loop sends one datagram less (range(2)).
SendLoopDone_Early(k) == k >= SendAttempts - 1

\* for i in range(3): the loop of send_measurement() is exhausted at index k.
SendLoopDone(k) == k >= SendAttempts

\* Number of occurrences of op in the call log.
Count(op) == Cardinality({k \in 1..Len(calls) : calls[k] = op})

----------------------------------------------------------------------------
(* State *)

\* Volatile state at the entry point of a fresh boot.
Fresh ==
    /\ pc' = "entry"
    /\ branch' = "none"
    /\ i' = 0
    /\ connectRet' = "unset"
    /\ reading' = <<>>
    /\ measurement_id' = <<>>
    /\ exc' = "none"
    /\ calls' = <<>>
    /\ polled' = <<>>
    /\ sent' = <<>>
    /\ slept' = <<>>

Init ==
    /\ pc = "entry"
    /\ cycle = 1
    /\ cause = PWRON_RESET
    /\ now = 0
    /\ synced = FALSE
    /\ isconnected = FALSE
    /\ branch = "none"
    /\ i = 0
    /\ connectRet = "unset"
    /\ reading = <<>>
    /\ measurement_id = <<>>
    /\ exc = "none"
    /\ calls = <<>>
    /\ polled = <<>>
    /\ sent = <<>>
    /\ slept = <<>>

----------------------------------------------------------------------------
(* The entry point:  if button.value(): main() *)

Entry ==
    /\ pc = "entry"
    /\ \E button \in {0, 1} :
          pc' = IF button # 0 THEN "main_pwron" ELSE "repl_bypass"
    /\ UNCHANGED <<cycle, cause, now, synced, isconnected, branch, i, connectRet,
                   reading, measurement_id, exc, calls, polled, sent, slept>>

----------------------------------------------------------------------------
(* main() *)

\* if machine.reset_cause() == machine.PWRON_RESET:  if connect(...):
MainPwronTest ==
    /\ pc = "main_pwron"
    /\ IF cause = PWRON_RESET
          THEN /\ pc' = "connect"
               /\ branch' = "PWRON"
               /\ calls' = Append(calls, "connect")
          ELSE /\ pc' = "main_deepsleep"
               /\ UNCHANGED <<branch, calls>>
    /\ UNCHANGED <<cycle, cause, now, synced, isconnected, i, connectRet,
                   reading, measurement_id, exc, polled, sent, slept>>

\* Mutant of MainPwronConnected: the block measures and sends without
\* ntptime.settime().
MainPwronConnected_NoSettime ==
    /\ pc = "connect_return"
    /\ branch = "PWRON"
    /\ pc' = IF Truthy(connectRet) THEN "send_measurement" ELSE "main_deepsleep"
    /\ UNCHANGED <<cycle, cause, now, synced, isconnected, branch, i, connectRet,
                   reading, measurement_id, exc, calls, polled, sent, slept>>

\* Mutant of MainPwronConnected: the result of connect() is not tested.
MainPwronConnected_Untested ==
    /\ pc = "connect_return"
    /\ branch = "PWRON"
    /\ pc' = "settime"
    /\ UNCHANGED <<cycle, cause, now, synced, isconnected, branch, i, connectRet,
                   reading, measurement_id, exc, calls, polled, sent, slept>>

\* connect() has returned to the PWRON_RESET block: a true result enters the
\* block, anything else falls through to the second test of main().
MainPwronConnected ==
    /\ pc = "connect_return"
    /\ branch = "PWRON"
    /\ pc' = IF Truthy(connectRet) THEN "settime" ELSE "main_deepsleep"
    /\ UNCHANGED <<cycle, cause, now, synced, isconnected, branch, i, connectRet,
                   reading, measurement_id, exc, calls, polled, sent, slept>>

\* Mutant of Settime: a failed synchronization is caught and the block goes
\* on with the unsynchronized clock.
Settime_Caught ==
    /\ pc = "settime"
    /\ calls' = Append(calls, "settime")
    /\ \/ \E t \in NtpTimes :
             /\ now' = t
             /\ synced' = TRUE
             /\ exc' = exc
       \/ /\ exc' = "settime"
          /\ UNCHANGED <<now, synced>>
    /\ pc' = "send_measurement"
    /\ UNCHANGED <<cycle, cause, isconnected, branch, i, connectRet,
                   reading, measurement_id, polled, sent, slept>>

\* ntptime.settime(): sets the RTC from the network, or raises.
Settime ==
    /\ pc = "settime"
    /\ calls' = Append(calls, "settime")
    /\ \/ \E t \in NtpTimes :
             /\ now' = t
             /\ synced' = TRUE
             /\ pc' = "send_measurement"
             /\ exc' = exc
       \/ /\ exc' = "settime"
          /\ pc' = "exception"
          /\ UNCHANGED <<now, synced>>
    /\ UNCHANGED <<cycle, cause, isconnected, branch, i, connectRet,
                   reading, measurement_id, polled, sent, slept>>

\* Mutant of MainDeepsleepTest: the second block is entered whatever the
\* reset cause.
MainDeepsleepTest_Untested ==
    /\ pc = "main_deepsleep"
    /\ pc' = "connect"
    /\ branch' = "DEEPSLEEP"
    /\ calls' = Append(calls, "connect")
    /\ UNCHANGED <<cycle, cause, now, synced, isconnected, i, connectRet,
                   reading, measurement_id, exc, polled, sent, slept>>

\* Mutant of MainDeepsleepTest: the second block is an else of the first
\* (taken for every cause but PWRON_RESET).
MainDeepsleepTest_Else ==
    /\ pc = "main_deepsleep"
    /\ IF cause # PWRON_RESET
          THEN /\ pc' = "connect"
               /\ branch' = "DEEPSLEEP"
               /\ calls' = Append(calls, "connect")
          ELSE /\ pc' = "main_return"
               /\ UNCHANGED <<branch, calls>>
    /\ UNCHANGED <<cycle, cause, now, synced, isconnected, i, connectRet,
                   reading, measurement_id, exc, polled, sent, slept>>

\* if machine.reset_cause() == machine.DEEPSLEEP_RESET:  if connect(...):
MainDeepsleepTest ==
    /\ pc = "main_deepsleep"
    /\ IF cause = DEEPSLEEP_RESET
          THEN /\ pc' = "connect"
               /\ branch' = "DEEPSLEEP"
               /\ calls' = Append(calls, "connect")
          ELSE /\ pc' = "main_return"
               /\ UNCHANGED <<branch, calls>>
    /\ UNCHANGED <<cycle, cause, now, synced, isconnected, i, connectRet,
                   reading, measurement_id, exc, polled, sent, slept>>

\* Mutant of MainDeepsleepConnected: the block calls machine.deepsleep
\* before send_measurement.
MainDeepsleepConnected_SleepFirst ==
    /\ pc = "connect_return"
    /\ branch = "DEEPSLEEP"
    /\ pc' = IF Truthy(connectRet) THEN "deepsleep_call" ELSE "main_return"
    /\ UNCHANGED <<cycle, cause, now, synced, isconnected, branch, i, connectRet,
                   reading, measurement_id, exc, calls, polled, sent, slept>>

\* Mutant of MainDeepsleepConnected: the DEEPSLEEP_RESET block is a copy of
\* the PWRON_RESET block, ntptime.settime() included.
MainDeepsleepConnected_Settime ==
    /\ pc = "connect_return"
    /\ branch = "DEEPSLEEP"
    /\ pc' = IF Truthy(connectRet) THEN "settime" ELSE "main_return"
    /\ UNCHANGED <<cycle, cause, now, synced, isconnected, branch, i, connectRet,
                   reading, measurement_id, exc, calls, polled, sent, slept>>

\* connect() has returned to the DEEPSLEEP_RESET block: a true result enters
\* the block, anything else ends main().
MainDeepsleepConnected ==
    /\ pc = "connect_return"
    /\ branch = "DEEPSLEEP"
    /\ pc' = IF Truthy(connectRet) THEN "send_measurement" ELSE "main_return"
    /\ UNCHANGED <<cycle, cause, now, synced, isconnected, branch, i, connectRet,
                   reading, measurement_id, exc, calls, polled, sent, slept>>

\* Argument of machine.deepsleep in the PWRON_RESET block.
PwronSleepMs == INTERVAL * MsPerSecond

\* Mutant of TimerSleepMs: the interval is passed in seconds.
TimerSleepMs_Seconds == INTERVAL

\* Argument of machine.deepsleep in the DEEPSLEEP_RESET block.
TimerSleepMs == INTERVAL * MsPerSecond

\* machine.deepsleep(INTERVAL * 1000) of the PWRON_RESET block; does not return.
PwronDeepsleep ==
    /\ pc = "deepsleep_call"
    /\ branch = "PWRON"
    /\ calls' = Append(calls, "deepsleep")
    /\ slept' = Append(slept, PwronSleepMs)
    /\ pc' = "deepsleep"
    /\ UNCHANGED <<cycle, cause, now, synced, isconnected, branch, i, connectRet,
                   reading, measurement_id, exc, polled, sent>>

\* machine.deepsleep(INTERVAL * 1000) of the DEEPSLEEP_RESET block; does not
\* return.
TimerDeepsleep ==
    /\ pc = "deepsleep_call"
    /\ branch = "DEEPSLEEP"
    /\ calls' = Append(calls, "deepsleep")
    /\ slept' = Append(slept, TimerSleepMs)
    /\ pc' = "deepsleep"
    /\ UNCHANGED <<cycle, cause, now, synced, isconnected, branch, i, connectRet,
                   reading, measurement_id, exc, polled, sent>>

----------------------------------------------------------------------------
(* connect() *)

\* Mutant of ConnectCheck: the interface is activated before the status is
\* tested (nic.active(True) moved above the if).
ConnectCheck_ActivateFirst ==
    /\ pc = "connect"
    /\ IF isconnected
          THEN /\ calls' = Append(calls, "nic.active")
               /\ connectRet' = "True"
               /\ pc' = "connect_return"
               /\ UNCHANGED i
          ELSE /\ calls' = calls \o <<"nic.active", "nic.connect">>
               /\ i' = 0
               /\ pc' = "connect_poll"
               /\ UNCHANGED connectRet
    /\ UNCHANGED <<cycle, cause, now, synced, isconnected, branch,
                   reading, measurement_id, exc, polled, sent, slept>>

\* nic = network.WLAN(...); if nic.isconnected(): return True;
\* nic.active(True); nic.connect(...); start of the for-loop.
ConnectCheck ==
    /\ pc = "connect"
    /\ IF isconnected
          THEN /\ connectRet' = "True"
               /\ pc' = "connect_return"
               /\ UNCHANGED <<calls, i>>
          ELSE /\ calls' = calls \o <<"nic.active", "nic.connect">>
               /\ i' = 0
               /\ pc' = "connect_poll"
               /\ UNCHANGED connectRet
    /\ UNCHANGED <<cycle, cause, now, synced, isconnected, branch,
                   reading, measurement_id, exc, polled, sent, slept>>

\* One iteration of the loop: utime.sleep(0.5), during which the radio may
\* or may not associate, then the isconnected() test.
ConnectPoll ==
    /\ pc = "connect_poll"
    /\ ~PollLoopDone(i)
    /\ now' = now + PollDelay
    /\ \E up \in BOOLEAN :
          /\ isconnected' = up
          /\ polled' = Append(polled, up)
          /\ IF up
                THEN /\ connectRet' = "True"
                     /\ pc' = "connect_return"
                     /\ i' = i
                ELSE /\ i' = i + 1
                     /\ UNCHANGED <<connectRet, pc>>
    /\ UNCHANGED <<cycle, cause, synced, branch, reading, measurement_id, exc,
                   calls, sent, slept>>

\* Mutant of ConnectExhausted: at the ceiling connect() starts polling anew
\* instead of giving up.
ConnectExhausted_Retry ==
    /\ pc = "connect_poll"
    /\ PollLoopDone(i)
    /\ i' = 0
    /\ polled' = <<>>
    /\ UNCHANGED <<pc, cycle, cause, now, synced, isconnected, branch, connectRet,
                   reading, measurement_id, exc, calls, sent, slept>>

\* The loop is exhausted: the function ends without a return statement.
ConnectExhausted ==
    /\ pc = "connect_poll"
    /\ PollLoopDone(i)
    /\ connectRet' = "None"
    /\ pc' = "connect_return"
    /\ UNCHANGED <<cycle, cause, now, synced, isconnected, branch, i,
                   reading, measurement_id, exc, calls, polled, sent, slept>>

----------------------------------------------------------------------------
(* send_measurement() *)

\* Mutant of Measure: a failed reading is caught and replaced by a default
\* reading of (0.0, 0.0).
Measure_Default ==
    /\ pc = "send_measurement"
    /\ \/ \E r \in SensorReadings, id \in UrandomSamples :
             /\ calls' = calls \o <<"measure", "urandom">>
             /\ reading' = r
             /\ measurement_id' = id
             /\ exc' = exc
       \/ \E id \in UrandomSamples :
             /\ calls' = calls \o <<"measure", "urandom">>
             /\ reading' = <<0, 0>>
             /\ measurement_id' = id
             /\ exc' = "sensor"
    /\ i' = 0
    /\ pc' = "send_loop"
    /\ UNCHANGED <<cycle, cause, now, synced, isconnected, branch, connectRet,
                   polled, sent, slept>>

\* sensor.measure() (may raise), temperature(), humidity(), print,
\* measurement_id = uos.urandom(16), start of the for-loop.
Measure ==
    /\ pc = "send_measurement"
    /\ \/ \E r \in SensorReadings, id \in UrandomSamples :
             /\ calls' = calls \o <<"measure", "urandom">>
             /\ reading' = r
             /\ measurement_id' = id
             /\ i' = 0
             /\ pc' = "send_loop"
             /\ exc' = exc
       \/ /\ calls' = Append(calls, "measure")
          /\ exc' = "sensor"
          /\ pc' = "exception"
          /\ UNCHANGED <<reading, measurement_id, i>>
    /\ UNCHANGED <<cycle, cause, now, synced, isconnected, branch, connectRet,
                   polled, sent, slept>>

\* Mutant of Send: the socket is created once, by the first iteration, and
\* used by all sends.
Send_SharedSocket ==
    /\ pc = "send_loop"
    /\ ~SendLoopDone(i)
    /\ calls' = IF i = 0 THEN calls \o <<"socket", "sendto">>
                         ELSE Append(calls, "sendto")
    /\ \/ /\ sent' = Append(sent,
                        [ sock    |-> 1,
                          address |-> <<SERVER_ADDR, SERVER_PORT>>,
                          data    |-> dumps(Payload(now, measurement_id, reading)) ])
          /\ now' = now + SendDelay
          /\ i' = i + 1
          /\ UNCHANGED <<pc, exc>>
       \/ /\ exc' = "sendto"
          /\ pc' = "exception"
          /\ UNCHANGED <<sent, now, i>>
    /\ UNCHANGED <<cycle, cause, synced, isconnected, branch, connectRet,
                   reading, measurement_id, polled, slept>>

\* One iteration of the loop: a new socket, sendto() of the freshly built
\* and serialized dictionary (may raise), utime.sleep(0.1).
Send ==
    /\ pc = "send_loop"
    /\ ~SendLoopDone(i)
    /\ calls' = calls \o <<"socket", "sendto">>
    /\ \/ /\ sent' = Append(sent,
                        [ sock    |-> Count("socket") + 1,
                          address |-> <<SERVER_ADDR, SERVER_PORT>>,
                          data    |-> dumps(Payload(now, measurement_id, reading)) ])
          /\ now' = now + SendDelay
          /\ i' = i + 1
          /\ UNCHANGED <<pc, exc>>
       \/ /\ exc' = "sendto"
          /\ pc' = "exception"
          /\ UNCHANGED <<sent, now, i>>
    /\ UNCHANGED <<cycle, cause, synced, isconnected, branch, connectRet,
                   reading, measurement_id, polled, slept>>

\* The loop is exhausted: send_measurement returns to main().
SendReturn ==
    /\ pc = "send_loop"
    /\ SendLoopDone(i)
    /\ pc' = "deepsleep_call"
    /\ UNCHANGED <<cycle, cause, now, synced, isconnected, branch, i, connectRet,
                   reading, measurement_id, exc, calls, polled, sent, slept>>

----------------------------------------------------------------------------
(* The platform between cycles *)

\* The deep-sleep timer expires: the RTC has kept running, everything else
\* (by the milliseconds slept, 100 to a tenth of a second), everything else
\* starts afresh, and the entry point runs with cause DEEPSLEEP_RESET.  What
\* the radio reports at that point is the platform's business.
TimerWake ==
    /\ pc = "deepsleep"
    /\ cycle < MaxCycles
    /\ cycle' = cycle + 1
    /\ cause' = DEEPSLEEP_RESET
    /\ now' = now + (slept[Len(slept)] \div 100)
    /\ isconnected' \in BOOLEAN
    /\ Fresh
    /\ UNCHANGED synced

\* The cycle has ended without a deep sleep (REPL after the button bypass,
\* after main() returned, or after an uncaught exception) and somebody
\* resets the device.  A power cycle clears the RTC; a soft reset leaves
\* the radio as it is.
ExternalReset ==
    /\ pc \in {"repl_bypass", "main_return", "exception"}
    /\ cycle < MaxCycles
    /\ cycle' = cycle + 1
    /\ \E c \in ExternalCauses :
          /\ cause' = c
          /\ now' = IF c = PWRON_RESET THEN 0 ELSE now
          /\ synced' = IF c = PWRON_RESET THEN FALSE ELSE synced
          /\ isconnected' = IF c = SOFT_RESET THEN isconnected ELSE FALSE
    /\ Fresh

----------------------------------------------------------------------------

Next ==
    \/ Entry
    \/ MainPwronTest
    \/ MainPwronConnected
    \/ Settime
    \/ MainDeepsleepTest
    \/ MainDeepsleepConnected
    \/ PwronDeepsleep
    \/ TimerDeepsleep
    \/ ConnectCheck
    \/ ConnectPoll
    \/ ConnectExhausted
    \/ Measure
    \/ Send
    \/ SendReturn
    \/ TimerWake
    \/ ExternalReset

Spec == Init /\ [][Next]_vars

\* A step of the firmware itself: the single flow of control.
Step ==
    \/ Entry
    \/ MainPwronTest
    \/ MainPwronConnected
    \/ Settime
    \/ MainDeepsleepTest
    \/ MainDeepsleepConnected
    \/ PwronDeepsleep
    \/ TimerDeepsleep
    \/ ConnectCheck
    \/ ConnectPoll
    \/ ConnectExhausted
    \/ Measure
    \/ Send
    \/ SendReturn

\* The interpreter keeps running the program until it reaches the REPL or
\* the deep sleep, and an armed deep-sleep timer expires.  Nothing obliges
\* anybody to reset a device that sits in the REPL.
LiveSpec == Init /\ [][Next]_vars /\ WF_vars(Step) /\ WF_vars(TimerWake)

\* The cycle is over: the device sleeps, or sits in the REPL.
CycleEnded == pc \in {"deepsleep", "repl_bypass", "main_return", "exception"}

TypeOK ==
    /\ pc \in {"entry", "repl_bypass", "main_pwron", "main_deepsleep", "connect",
               "connect_poll", "connect_return", "settime", "send_measurement",
               "send_loop", "deepsleep_call", "deepsleep", "main_return",
               "exception"}
    /\ cycle \in 1..MaxCycles
    /\ cause \in ExternalCauses \cup {DEEPSLEEP_RESET}
    /\ now \in Nat
    /\ synced \in BOOLEAN
    /\ isconnected \in BOOLEAN
    /\ branch \in {"none", "PWRON", "DEEPSLEEP"}
    /\ i \in 0..PollAttempts
    /\ connectRet \in {"unset", "True", "None"}
    /\ reading \in SensorReadings \cup {<<>>}
    /\ measurement_id \in UrandomSamples \cup {<<>>}
    /\ exc \in {"none", "settime", "sensor", "sendto"}
    /\ Len(polled) <= PollAttempts
    /\ Len(sent) <= SendAttempts
    /\ Len(slept) <= 1

----------------------------------------------------------------------------
(* Properties of a cycle *)

\* main() was called in this cycle and the cause is one it handles.
Dispatched ==
    /\ pc \notin {"entry", "repl_bypass"}
    /\ cause \in {PWRON_RESET, DEEPSLEEP_RESET}

\* C1: a ColdStart or TimerWake cycle whose connect() did not report success
\* (no association within the 20 polls) still calls the Sleep Scheduler,
\* with the full configured interval, before the cycle ends.
C1_SleepAfterConnectFailure ==
    (CycleEnded /\ Dispatched /\ connectRet = "None")
        => slept = <<INTERVAL * 1000>>

\* C2: a dispatched ColdStart or TimerWake cycle makes exactly one sleep
\* invocation on every path through main().  Stated for the two paths the
\* claim names (connect success, connect timeout), in cycles where no
\* platform call raises.
C2_ExactlyOneSleep ==
    (CycleEnded /\ Dispatched /\ exc = "none") => Len(slept) = 1

\* Every datagram of the cycle goes to the configured destination and
\* carries the measurement_id, temperature and humidity of the cycle.
SentCarryMeasurement ==
    \A k \in 1..Len(sent) :
        /\ sent[k].address = <<SERVER_ADDR, SERVER_PORT>>
        /\ JsonField(sent[k].data, "measurement_id") = Quote(hexlify(measurement_id))
        /\ JsonField(sent[k].data, "temperature") = FormatTenths(reading[1])
        /\ JsonField(sent[k].data, "humidity") = FormatTenths(reading[2])

C4_TransportErrorDoesNotAbort ==
    (CycleEnded /\ exc = "sendto")
        => /\ Count("sendto") = 3
           /\ Len(slept) = 1

\* C5: ntptime.settime() is called at most once per cycle, only in a
\* ColdStart cycle whose connect() succeeded, and in every such cycle.
C5_SettimeIffColdStartConnected ==
    /\ Count("settime") <= 1
    /\ Count("settime") = 1 => (cause = PWRON_RESET /\ connectRet = "True")
    /\ (CycleEnded /\ pc # "repl_bypass" /\ cause = PWRON_RESET /\ connectRet = "True")
          => Count("settime") = 1

\* A TimerWake cycle that connected and completed without settime, after a
\* ColdStart cycle that called it (the clock is synchronized).
C5_Witness ==
    /\ pc = "deepsleep"
    /\ cause = DEEPSLEEP_RESET
    /\ connectRet = "True"
    /\ synced
    /\ Count("settime") = 0

\* C6: while connect() has not reported success, the cycle takes no sensor
\* reading, generates no measurement_id, does not synchronize time and
\* sends no datagram.
C6_NothingWithoutConnect ==
    connectRet # "True"
        => /\ Count("measure") = 0
           /\ Count("urandom") = 0
           /\ Count("settime") = 0
           /\ Count("socket") = 0
           /\ Count("sendto") = 0
           /\ sent = <<>>
           /\ reading = <<>>
           /\ measurement_id = <<>>

C6_Witness ==
    /\ CycleEnded
    /\ Count("connect") = 1
    /\ connectRet = "None"

\* C7: the datagrams sent in one cycle carry the same serialized payload,
\* sensor_time included.
C7_SamePayload ==
    \A k, l \in 1..Len(sent) : sent[k].data = sent[l].data

\* C8: with a cause other than ColdStart and TimerWake the cycle makes no
\* platform call at all (no connect, time synchronization, sensor reading,
\* send or sleep) and main() falls through to its end.
C8_OtherCauseNoAction ==
    cause \notin {PWRON_RESET, DEEPSLEEP_RESET}
        => /\ calls = <<>>
           /\ sent = <<>>
           /\ slept = <<>>
           /\ connectRet = "unset"
           /\ pc \in {"entry", "repl_bypass", "main_pwron", "main_deepsleep",
                      "main_return"}

C8_Witness ==
    /\ pc = "main_return"
    /\ cause \notin {PWRON_RESET, DEEPSLEEP_RESET}

\* C9: every deepsleep call of a cycle is passed INTERVAL * 1000 ms.
C9_SleepDurationIsInterval ==
    /\ Len(slept) = Count("deepsleep")
    /\ \A k \in 1..Len(slept) : slept[k] = INTERVAL * 1000

\* A ColdStart cycle has slept (it started the current TimerWake cycle) and
\* the TimerWake cycle has called deepsleep too.
C9_Witness ==
    /\ cause = DEEPSLEEP_RESET
    /\ slept # <<>>

\* C10: connect(), when not already associated, initiates association once
\* and polls at most 20 times; it returns True at the first poll that finds
\* the interface associated, returns None after exactly 20 unsuccessful
\* polls, and raises nothing.
C10_ConnectPolls ==
    /\ Count("nic.connect") <= 1
    /\ polled # <<>> => (Count("nic.active") = 1 /\ Count("nic.connect") = 1)
    /\ Len(polled) <= 20
    /\ \A k \in 1..(Len(polled) - 1) : ~polled[k]
    /\ (polled # <<>> /\ polled[Len(polled)]) => connectRet = "True"
    /\ (connectRet = "True" /\ Count("nic.connect") = 1)
          => (polled # <<>> /\ polled[Len(polled)])
    /\ connectRet = "None"
          => /\ Len(polled) = 20
             /\ \A k \in 1..20 : ~polled[k]
    /\ (Count("connect") = 1 /\ pc \notin {"connect", "connect_poll"})
          => connectRet \in {"True", "None"}
    /\ exc # "none" => connectRet = "True"

\* connect() has timed out.
C10_Witness ==
    /\ pc = "connect_return"
    /\ connectRet = "None"
    /\ Len(polled) = 20


\* C11: connect() called with the interface already associated returns True
\* in that very step: it does not activate the interface, does not initiate
\* an association, polls nothing and waits for nothing (the clock and the
\* interface are as they were).
C11_FastPath ==
    [][ (pc = "connect" /\ isconnected)
          => /\ connectRet' = "True"
             /\ pc' = "connect_return"
             /\ calls' = calls
             /\ polled' = polled
             /\ now' = now
             /\ isconnected' = isconnected ]_vars

\* connect() has returned through the fast path.
C11_Witness ==
    /\ pc = "connect_return"
    /\ connectRet = "True"
    /\ calls = <<"connect">>
    /\ polled = <<>>


\* C12: a sensor read that fails in a cycle whose connect() succeeded ends
\* the cycle with the exception: no measurement_id is generated, no datagram
\* is sent, no reading is substituted and deepsleep is not called.
C12_SensorFailurePropagates ==
    exc = "sensor"
        => /\ pc = "exception"
           /\ connectRet = "True"
           /\ Count("measure") = 1
           /\ Count("urandom") = 0
           /\ Count("socket") = 0
           /\ Count("sendto") = 0
           /\ Count("deepsleep") = 0
           /\ reading = <<>>
           /\ measurement_id = <<>>
           /\ sent = <<>>
           /\ slept = <<>>

\* The sensor read has failed in a timer-wake cycle.
C12_Witness ==
    /\ exc = "sensor"
    /\ cause = DEEPSLEEP_RESET
    /\ connectRet = "True"

\* C13: a time synchronization that fails in a ColdStart cycle whose
\* connect() succeeded ends the cycle with the exception: the sensor is not
\* read, no datagram is sent and deepsleep is not called.
C13_SettimeFailurePropagates ==
    exc = "settime"
        => /\ pc = "exception"
           /\ cause = PWRON_RESET
           /\ connectRet = "True"
           /\ ~synced
           /\ Count("settime") = 1
           /\ Count("measure") = 0
           /\ Count("urandom") = 0
           /\ Count("sendto") = 0
           /\ Count("deepsleep") = 0
           /\ reading = <<>>
           /\ sent = <<>>
           /\ slept = <<>>

\* The time synchronization has failed after a successful connect().
C13_Witness ==
    /\ exc = "settime"
    /\ cause = PWRON_RESET
    /\ connectRet = "True"
    /\ calls[Len(calls)] = "settime"


\* C14: with a fair sleep timer, a ColdStart or TimerWake cycle that ends
\* without a sensor, time-sync or transport error (a cycle whose connect()
\* timed out included) is eventually followed by a cycle entered with cause
\* TimerWake.
C14_NextCycleIsTimerWake ==
    \A c \in 1..(MaxCycles - 1) :
        (cycle = c /\ CycleEnded /\ Dispatched /\ exc = "none")
            ~> (cycle = c + 1 /\ cause = DEEPSLEEP_RESET)

\* The part of C14 the code keeps: a cycle that called deepsleep is followed
\* by a TimerWake cycle.
SleptCycleIsFollowed ==
    \A c \in 1..(MaxCycles - 1) :
        (cycle = c /\ pc = "deepsleep")
            ~> (cycle = c + 1 /\ cause = DEEPSLEEP_RESET)


\* Positions of op in the call log.
Positions(op) == {k \in 1..Len(calls) : calls[k] = op}

\* Every call of a comes before every call of b.
Precedes(a, b) == \A k \in Positions(a), l \in Positions(b) : k < l

\* C15: the calls of a cycle come in a fixed order: connect() is the first
\* and has returned True before anything else is called; in a ColdStart
\* cycle settime has been called before the sensor is read; the sensor is
\* read (and the id drawn) before the first send; all three sends come
\* before deepsleep; deepsleep is the last call of the cycle.
C15_OrderOfCalls ==
    /\ calls # <<>> => calls[1] = "connect"
    /\ \A k \in 1..Len(calls) :
          calls[k] \in {"settime", "measure", "urandom", "socket", "sendto",
                        "deepsleep"}
              => connectRet = "True"
    /\ Precedes("connect", "settime")
    /\ Precedes("settime", "measure")
    /\ (cause = PWRON_RESET /\ Count("measure") > 0)
          => (Count("settime") = 1 /\ synced)
    /\ Precedes("measure", "urandom")
    /\ Precedes("urandom", "sendto")
    /\ Count("sendto") > 0 => (Count("measure") = 1 /\ Count("urandom") = 1)
    /\ Precedes("sendto", "deepsleep")
    /\ Count("deepsleep") > 0
          => /\ Count("deepsleep") = 1
             /\ Len(sent) = 3
             /\ calls[Len(calls)] = "deepsleep"
             /\ pc = "deepsleep"

\* A ColdStart cycle has gone through all of its calls.
C15_Witness ==
    /\ cause = PWRON_RESET
    /\ calls = <<"connect", "nic.active", "nic.connect", "settime", "measure",
                 "urandom", "socket", "sendto", "socket", "sendto", "socket",
                 "sendto", "deepsleep">>

\* C16: every datagram of every cycle is sent with a clock that
\* ntptime.settime() has set since the last power-on.
C16_SentOnlyWhenSynced ==
    /\ sent # <<>> => synced
    /\ Count("sendto") > 0 => synced

\* A datagram has been sent in a TimerWake cycle (the clock was set in the
\* ColdStart cycle before it).
C16_Witness ==
    /\ cause = DEEPSLEEP_RESET
    /\ sent # <<>>
    /\ Count("settime") = 0
    /\ synced


\* An upper bound of the number of steps the cycle can still take: from
\* each position, the statements left on the longest path to the end of the
\* cycle, the loops counted with their remaining iterations.
StepsLeft ==
    LET S == SendAttempts
        P == PollAttempts
    IN  CASE pc = "entry"            -> 2 * P + S + 12
          [] pc = "main_pwron"       -> 2 * P + S + 11
          [] pc = "connect" /\ branch = "PWRON"
                                     -> 2 * P + S + 10
          [] pc = "connect_poll" /\ branch = "PWRON"
                                     -> (P - i) + P + S + 9
          [] pc = "connect_return" /\ branch = "PWRON"
                                     -> P + S + 8
          [] pc = "main_deepsleep"   -> P + S + 7
          [] pc = "connect" /\ branch = "DEEPSLEEP"
                                     -> P + S + 6
          [] pc = "connect_poll" /\ branch = "DEEPSLEEP"
                                     -> (P - i) + S + 5
          [] pc = "connect_return" /\ branch = "DEEPSLEEP"
                                     -> S + 4
          [] pc = "settime"          -> S + 4
          [] pc = "send_measurement" -> S + 3
          [] pc = "send_loop"        -> (S - i) + 2
          [] pc = "deepsleep_call"   -> 1
          [] OTHER                   -> 0

\* C17: every cycle terminates within a bounded number of steps, whatever
\* the cause and whatever the network does: until the cycle has ended
\* (deep sleep, fall-through or exception) the program can take a step, and
\* every step lowers StepsLeft, which is at least 0 and at most
\* 2 * 20 + 3 + 12; connect() polls at most 20 times and send_measurement
\* sends at most 3 times.
C17_CycleTerminates ==
    /\ [](~CycleEnded => ENABLED Step)
    /\ [](CycleEnded => ~ENABLED Step)
    /\ [](StepsLeft \in 0..(2 * 20 + 3 + 12))
    /\ [](Len(polled) <= 20 /\ Count("sendto") <= 3)
    /\ [][Step => StepsLeft' < StepsLeft]_vars

\* A TimerWake cycle has ended after the network never associated.
C17_Witness ==
    /\ pc = "main_return"
    /\ cause = DEEPSLEEP_RESET
    /\ Len(polled) = 20
    /\ StepsLeft = 0

\* Under fair scheduling of the program's steps every cycle reaches its end.
CycleEventuallyEnds == []<>CycleEnded


\* C18: every send has a socket of its own: each sendto() is called on the
\* socket opened just before it, as many sockets are opened as sends are
\* attempted, and no two datagrams went through the same socket.
C18_FreshSocketPerSend ==
    /\ Count("socket") = Count("sendto")
    /\ \A k \in Positions("sendto") : k > 1 /\ calls[k - 1] = "socket"
    /\ \A k \in Positions("socket") : k < Len(calls) /\ calls[k + 1] = "sendto"
    /\ \A k \in 1..Len(sent) : sent[k].sock \in 1..Count("socket")
    /\ \A k, l \in 1..Len(sent) : k # l => sent[k].sock # sent[l].sock

\* Three datagrams have gone out through three sockets.
C18_Witness ==
    /\ Len(sent) = 3
    /\ Count("socket") = 3
    /\ {sent[k].sock : k \in 1..3} = {1, 2, 3}

\* C19: connect() is called at most once per cycle: a ColdStart cycle never
\* enters the DEEPSLEEP_RESET block, whether its connect() failed or not,
\* and a cycle whose connect() succeeded never gets to the second test of
\* main().
C19_ConnectAtMostOnce ==
    /\ Count("connect") <= 1
    /\ cause = PWRON_RESET => branch # "DEEPSLEEP"
    /\ (branch = "PWRON" /\ connectRet = "True")
          => pc \notin {"main_deepsleep", "main_return"}
    /\ (branch = "PWRON" /\ pc = "main_return")
          => (connectRet = "None" /\ Count("connect") = 1)

\* A ColdStart cycle whose connect() failed has passed the second test and
\* left main().
C19_Witness ==
    /\ cause = PWRON_RESET
    /\ pc = "main_return"
    /\ connectRet = "None"
    /\ calls = <<"connect", "nic.active", "nic.connect">>

====
